---- MODULE Spec2Model ----
(***************************************************************************)
(* A model of neurofinder/job.py: the Job class that validates and         *)
(* executes pull requests against the neurofinder benchmark.               *)
(*                                                                         *)
(* The state is what outlives a single call: the mongo collection of       *)
(* status records, the wall clock and time zone that time.mktime reads,    *)
(* and the interpreter's import state (sys.path and sys.modules['run']).   *)
(* Every method of Job is one action; what the call was given and what it  *)
(* gave back is kept in lastCall.                                          *)
(***************************************************************************)
EXTENDS Integers, Sequences, FiniteSets, TLC

(***************************************************************************)
(* Bounds of the model.                                                    *)
(***************************************************************************)
\* how many times the clock advances
MaxTicks == 2
\* how many clones (temporary directories) one process makes
MaxClones == 2

\* the pull requests the driver loops over
Ids == {1, 2}

\* The clock starts late enough that every converted time is positive, as
\* every real epoch time is (zone offsets are hours, the epoch is decades).
StartTime == 3

\* the local zone's offset from UTC, in clock units
TzOffsets == {-1, 0, 1}

Times == (StartTime - 1)..(StartTime + MaxTicks)

Flags == {"validated", "executed"}

VARIABLES
    collection,   \* pymongo collection: the sequence of stored documents
    now,          \* the wall clock, in UTC epoch units
    tz,           \* the local zone's UTC offset, which time.mktime applies
    sys_path,     \* the module directories appended to sys.path, in order
    sys_modules,  \* index in sys_path of the directory sys.modules['run'] was loaded from, 0 if none
    lastCall      \* the last step: a call of a Job method with its arguments and outcome, or a clock tick

vars == <<collection, now, tz, sys_path, sys_modules, lastCall>>

(***************************************************************************)
(* Pull request properties.                                                *)
(***************************************************************************)
\* Job.id: the pull request's id
id(i) == i

\* Job.login: the login of the pull request's user
login(i) == IF i = 1 THEN "ann" ELSE IF i = 2 THEN "bob" ELSE "cy"

(***************************************************************************)
(* Time.  time.mktime reads a time tuple as LOCAL time, and both callers   *)
(* hand it a UTC tuple (gmtime(), utctimetuple()): the result is the UTC   *)
(* epoch time shifted by the zone offset.                                  *)
(***************************************************************************)
mktime(utc) == utc - tz

(***************************************************************************)
(* The status store: pymongo's find_one, insert_one, update_one.           *)
(***************************************************************************)
\* the places of the documents whose "id" field is i
Matches(coll, i) == {k \in 1..Len(coll) : coll[k].id = i}

\* place of the first matching document, 0 when there is none
FirstMatch(coll, i) ==
    IF Matches(coll, i) = {} THEN 0
    ELSE CHOOSE k \in Matches(coll, i) : \A m \in Matches(coll, i) : k <= m

\* find_one({"id": i}) found a document (it returns None otherwise)
Found(coll, i) == FirstMatch(coll, i) # 0

\* find_one({"id": i}) when it finds one
find_one(coll, i) == coll[FirstMatch(coll, i)]

insert_one(coll, doc) == Append(coll, doc)

\* update_one({"id": i}, {"$set": {field: value}}): the first matching
\* document gets the field; without a match nothing is written (no upsert)
update_one(coll, i, field, value) ==
    IF Found(coll, i)
    THEN [coll EXCEPT ![FirstMatch(coll, i)] = [@ EXCEPT ![field] = value]]
    ELSE coll

\* payload with the flag already set
payload_validated(i) ==
    [id |-> id(i), login |-> login(i), validated |-> TRUE, executed |-> FALSE,
     last_checked |-> 0, validated_at |-> 0, executed_at |-> 0]

\* the document isentry inserts
payload(i) ==
    [id |-> id(i), login |-> login(i), validated |-> FALSE, executed |-> FALSE,
     last_checked |-> 0, validated_at |-> 0, executed_at |-> 0]

\* status + "_at"
At(status) == IF status = "validated" THEN "validated_at" ELSE "executed_at"

(***************************************************************************)
(* What a call leaves behind for the properties to read.                   *)
(***************************************************************************)
NoLayout == [dir |-> FALSE, info |-> "missing", run_py |-> "missing", init_py |-> FALSE]
NoFault == [at |-> "none", ds |-> 0, step |-> ""]

NoCall ==
    [op |-> "none", id |-> 0, flag |-> "", outcome |-> "returned", ret |-> FALSE,
     msgs |-> <<>>, mergeable |-> FALSE, layout |-> NoLayout, updated_at |-> 0,
     store |-> "ok", fault |-> NoFault, started |-> 0, stopped |-> 0,
     posted |-> <<>>, hasMetrics |-> FALSE, metrics |-> <<>>, hasInfo |-> FALSE,
     importResult |-> "", imported |-> 0, errors |-> "", spark_home |-> "",
     stage |-> "", added |-> FALSE, updates |-> 0]

Call(op, i) == [NoCall EXCEPT !.op = op, !.id = i]

(***************************************************************************)
(* Job.send_message: logs the message; the github comment is behind        *)
(* "if False" and is never posted.  Returns the messages sent so far.      *)
(***************************************************************************)
send_message(msgs, msg) == Append(msgs, msg)

(***************************************************************************)
(* Job.update_status.  The timestamp is taken first, then two separate     *)
(* update_one calls write the flag and the time.  st tells how far the     *)
(* store lets the call get: "ok" both writes, "raise1" the first write     *)
(* raises (nothing written), "raise2" the second raises (flag written).    *)
(***************************************************************************)
StoreOutcomes == {"ok", "raise1", "raise2"}

\* update_status without its second write
update_status_writes_flag_only(coll, i, status, timestamp, st) ==
    IF st = "raise1" THEN coll ELSE update_one(coll, i, status, TRUE)

\* how many of update_status's two update_one calls returned
update_status_updates(st) ==
    CASE st = "ok" -> 2
      [] st = "raise1" -> 0
      [] st = "raise2" -> 1

update_status_writes(coll, i, status, timestamp, st) ==
    LET first == update_one(coll, i, status, TRUE)
        second == update_one(first, i, At(status), timestamp)
    IN  CASE st = "ok" -> second
          [] st = "raise1" -> coll
          [] st = "raise2" -> first


(***************************************************************************)
(* The interpreter's import state.  importlib.import_module('run') gives   *)
(* back sys.modules['run'] when a module of that name was loaded before;   *)
(* otherwise it searches sys.path in order and loads run.py from the first *)
(* directory that holds one.  A load that raises leaves nothing cached.    *)
(* An entry of sys_path is [owner, run_py]: whose clone the directory is   *)
(* and what loading its run.py does.                                       *)
(***************************************************************************)
RunKinds == {"missing", "ok", "ImportError", "Error"}

WithRunPy(path) == {k \in 1..Len(path) : path[k].run_py # "missing"}

FirstWithRunPy(path) ==
    CHOOSE k \in WithRunPy(path) : \A m \in WithRunPy(path) : k <= m

\* result: "ok", "ImportError" or "Error" (any other exception);
\* from: the directory the returned module was loaded from;
\* modules: sys.modules['run'] afterwards
import_module(mods, path) ==
    IF mods # 0
    THEN [result |-> "ok", from |-> mods, modules |-> mods]
    ELSE IF WithRunPy(path) = {}
    THEN [result |-> "ImportError", from |-> 0, modules |-> 0]
    ELSE IF path[FirstWithRunPy(path)].run_py = "ok"
    THEN [result |-> "ok", from |-> FirstWithRunPy(path), modules |-> FirstWithRunPy(path)]
    ELSE [result |-> path[FirstWithRunPy(path)].run_py, from |-> 0, modules |-> 0]

(***************************************************************************)
(* Job.clone: what the checked-out branch holds under submissions/<login>/.*)
(* dir: the directory exists; info: info.json is "missing", "unreadable"   *)
(* (a file that cannot be opened), "invalid" (not JSON) or "valid";        *)
(* run_py: run/run.py is "missing", or what loading it does; init_py:      *)
(* run/__init__.py exists.  Without the directory nothing is in it.        *)
(***************************************************************************)
InfoKinds == {"missing", "unreadable", "invalid", "valid"}

Layouts ==
    {NoLayout} \cup
    [dir : {TRUE}, info : InfoKinds, run_py : RunKinds, init_py : BOOLEAN]

\* the sys.path entry of the clone's run/ directory
module(i, lay) == [owner |-> i, run_py |-> lay.run_py]

(***************************************************************************)
(* Job.isentry                                                             *)
(***************************************************************************)
\* isentry without its look-up
isentry_insert_always(coll, i) == insert_one(coll, payload(i))

isentry_insert(coll, i) ==
    IF ~Found(coll, i) THEN insert_one(coll, payload(i)) ELSE coll

isentry(i) ==
    /\ collection' = isentry_insert(collection, i)
    /\ lastCall' = [Call("isentry", i) EXCEPT !.added = ~Found(collection, i)]
    /\ UNCHANGED <<now, tz, sys_path, sys_modules>>

(***************************************************************************)
(* Job.isrecent: entry['last_checked'] < mktime(updated_at.utctimetuple()) *)
(* With no document find_one returns None and entry[...] raises TypeError. *)
(***************************************************************************)
\* isrecent with <= for <
isrecent_result_le(coll, i, updated_at) ==
    find_one(coll, i).last_checked <= mktime(updated_at)

isrecent_result(coll, i, updated_at) ==
    find_one(coll, i).last_checked < mktime(updated_at)

isrecent(i, updated_at) ==
    /\ lastCall' =
         IF Found(collection, i)
         THEN [Call("isrecent", i) EXCEPT !.updated_at = updated_at,
                  !.ret = isrecent_result(collection, i, updated_at)]
         ELSE [Call("isrecent", i) EXCEPT !.updated_at = updated_at,
                  !.outcome = "raised"]
    /\ UNCHANGED <<collection, now, tz, sys_path, sys_modules>>

(***************************************************************************)
(* Job.clear_status, Job.check_status, Job.update_status,                  *)
(* Job.update_last_checked                                                 *)
(***************************************************************************)
\* clear_status clearing both flags
clear_status_both(i, status) ==
    /\ collection' = update_one(update_one(collection, i, "validated", FALSE),
                                i, "executed", FALSE)
    /\ lastCall' = [Call("clear_status", i) EXCEPT !.flag = status]
    /\ UNCHANGED <<now, tz, sys_path, sys_modules>>

clear_status(i, status) ==
    /\ collection' = update_one(collection, i, status, FALSE)
    /\ lastCall' = [Call("clear_status", i) EXCEPT !.flag = status]
    /\ UNCHANGED <<now, tz, sys_path, sys_modules>>

\* check_status giving False when there is no record
check_status_default(i, status) ==
    /\ lastCall' =
         [Call("check_status", i) EXCEPT !.flag = status,
             !.ret = IF Found(collection, i) THEN find_one(collection, i)[status]
                     ELSE FALSE]
    /\ UNCHANGED <<collection, now, tz, sys_path, sys_modules>>

check_status(i, status) ==
    /\ lastCall' =
         IF Found(collection, i)
         THEN [Call("check_status", i) EXCEPT !.flag = status,
                  !.ret = find_one(collection, i)[status]]
         ELSE [Call("check_status", i) EXCEPT !.flag = status,
                  !.outcome = "raised"]
    /\ UNCHANGED <<collection, now, tz, sys_path, sys_modules>>

update_status(i, status, st) ==
    /\ collection' = update_status_writes(collection, i, status, mktime(now), st)
    /\ lastCall' = [Call("update_status", i) EXCEPT !.flag = status, !.store = st,
                       !.updates = update_status_updates(st),
                       !.outcome = IF st = "ok" THEN "returned" ELSE "raised"]
    /\ UNCHANGED <<now, tz, sys_path, sys_modules>>

\* update_last_checked writing the UTC time, not what mktime makes of it
update_last_checked_utc(i) ==
    /\ collection' = update_one(collection, i, "last_checked", now)
    /\ lastCall' = Call("update_last_checked", i)
    /\ UNCHANGED <<now, tz, sys_path, sys_modules>>

update_last_checked(i) ==
    /\ collection' = update_one(collection, i, "last_checked", mktime(now))
    /\ lastCall' = Call("update_last_checked", i)
    /\ UNCHANGED <<now, tz, sys_path, sys_modules>>

(***************************************************************************)
(* Job.validate.  Every check runs; each failed one adds its line.         *)
(***************************************************************************)
\* validate_checks without the mergeable check
validate_checks_no_merge(i, mergeable, lay) ==
    (IF ~lay.dir THEN "Missing directory submissions/" \o login(i) \o "\n" ELSE "")
    \o (CASE lay.info = "missing" -> "Missing info.json\n"
          [] lay.info = "unreadable" -> "Cannot find info.json file\n"
          [] lay.info = "invalid" -> "Error parsing info.json file\n"
          [] lay.info = "valid" -> "")
    \o (IF lay.run_py = "missing" THEN "Missing run.py\n" ELSE "")
    \o (IF ~lay.init_py THEN "Missing __init__.py\n" ELSE "")

\* validate_checks stopping at the first failed check
validate_checks_short(i, mergeable, lay) ==
    IF ~mergeable THEN "Submission cannot be merged\n"
    ELSE IF ~lay.dir THEN "Missing directory submissions/" \o login(i) \o "\n"
    ELSE IF lay.info = "missing" THEN "Missing info.json\n"
    ELSE IF lay.info = "unreadable" THEN "Cannot find info.json file\n"
    ELSE IF lay.info = "invalid" THEN "Error parsing info.json file\n"
    ELSE IF lay.run_py = "missing" THEN "Missing run.py\n"
    ELSE IF ~lay.init_py THEN "Missing __init__.py\n"
    ELSE ""

\* lines 317-343: the checks before the import
validate_checks(i, mergeable, lay) ==
    (IF ~mergeable THEN "Submission cannot be merged\n" ELSE "")
    \o (IF ~lay.dir THEN "Missing directory submissions/" \o login(i) \o "\n" ELSE "")
    \o (CASE lay.info = "missing" -> "Missing info.json\n"
          [] lay.info = "unreadable" -> "Cannot find info.json file\n"
          [] lay.info = "invalid" -> "Error parsing info.json file\n"
          [] lay.info = "valid" -> "")
    \o (IF lay.run_py = "missing" THEN "Missing run.py\n" ELSE "")
    \o (IF ~lay.init_py THEN "Missing __init__.py\n" ELSE "")

\* lines 344-350: with __init__.py present the module directory goes on
\* sys.path and run is imported; only ImportError is caught
validate_import(lay, result) ==
    IF lay.init_py /\ result = "ImportError"
    THEN "Cannot import run from run.py" ELSE ""

\* validate clearing the flag when the validation fails
validate_store_clears(coll, i, validated, timestamp, st) ==
    IF validated
    THEN update_status_writes(coll, i, "validated", timestamp, st)
    ELSE update_one(coll, i, "validated", FALSE)

\* lines 352-358: only a validation without errors writes to the store
validate_store(coll, i, validated, timestamp, st) ==
    IF validated
    THEN update_status_writes(coll, i, "validated", timestamp, st)
    ELSE coll

validate(i, mergeable, lay, st) ==
    /\ lay.init_py => Len(sys_path) < MaxClones
    /\ \E path \in {IF lay.init_py THEN Append(sys_path, module(i, lay)) ELSE sys_path} :
       \E imp \in {import_module(sys_modules, path)} :
       \E errors \in {validate_checks(i, mergeable, lay) \o validate_import(lay, imp.result)} :
       LET escaped == lay.init_py /\ imp.result = "Error"
           validated == errors = ""
           call == [Call("validate", i) EXCEPT !.mergeable = mergeable, !.layout = lay,
                       !.importResult = IF lay.init_py THEN imp.result ELSE "",
                       !.imported = IF lay.init_py THEN imp.from ELSE 0]
       IN  \* the store's answer is read only when update_status is called
           /\ (escaped \/ ~validated) => st = "ok"
           /\ sys_path' = path
           /\ sys_modules' = IF lay.init_py THEN imp.modules ELSE sys_modules
           /\ IF escaped
              THEN /\ lastCall' = [call EXCEPT !.outcome = "raised"]
                   /\ UNCHANGED collection
              ELSE /\ collection' =
                        validate_store(collection, i, validated, mktime(now), st)
                   /\ lastCall' =
                        IF ~validated
                        THEN [call EXCEPT !.errors = errors,
                                 !.msgs = send_message(<<>>, "Validation failed:\n" \o errors)]
                        ELSE IF st = "ok"
                        THEN [call EXCEPT !.store = st,
                                 !.updates = update_status_updates(st),
                                 !.msgs = send_message(<<>>, "Validation successful")]
                        ELSE [call EXCEPT !.store = st, !.outcome = "raised",
                                 !.updates = update_status_updates(st)]
    /\ UNCHANGED <<now, tz>>

(***************************************************************************)
(* Numbers.  A metric value is a fraction [n, d] with d > 0, or NaN.       *)
(* numpy.mean is the sum over the count, NaN as soon as one entry is NaN   *)
(* or there is none; numpy.nanmean leaves the NaN entries out first.       *)
(***************************************************************************)
NaN == [n |-> 0, d |-> 0]

isnan(x) == x.d = 0

Num(k) == [n |-> k, d |-> 1]

RECURSIVE SumFrac(_)
SumFrac(xs) ==
    IF xs = <<>> THEN Num(0)
    ELSE LET r == SumFrac(Tail(xs))
         IN  [n |-> Head(xs).n * r.d + r.n * Head(xs).d, d |-> Head(xs).d * r.d]

mean(xs) ==
    IF xs = <<>> \/ \E k \in 1..Len(xs) : isnan(xs[k]) THEN NaN
    ELSE [n |-> SumFrac(xs).n, d |-> SumFrac(xs).d * Len(xs)]

nanmean(xs) == mean(SelectSeq(xs, LAMBDA x : ~isnan(x)))

(***************************************************************************)
(* Job.execute                                                             *)
(***************************************************************************)
datasets == <<"00.00", "00.01">>

MetricNames == {"accuracy", "overlap", "distance", "count", "area"}

\* metrics = {'accuracy': [], 'overlap': [], ...}
EmptyMetrics == [k \in MetricNames |-> <<>>]

\* blob['contributors'] of a data set's info.json on S3
blob_contributors(name) == IF name = "00.00" THEN <<"ann", "bo">> ELSE <<"cy">>

\* ", ".join(names)
RECURSIVE join(_)
join(names) ==
    IF names = <<>> THEN ""
    ELSE IF Len(names) = 1 THEN names[1]
    ELSE names[1] \o ", " \o join(Tail(names))

\* the key post_image writes
image_key(i, folder) ==
    "neurofinder/images/" \o ToString(id(i)) \o "/" \o folder \o "/sources.png"

\* lines 261-281: the five records of one data set, appended in turn.
\* sample is what the engine computed for the data set: accuracy and count
\* (numbers), overlap, distance and areas (one number per source).
append_dataset(metrics, name, sample) ==
    LET base == [dataset |-> name, contributors |-> join(blob_contributors(name))]
        rec(v) == [value |-> v, dataset |-> base.dataset, contributors |-> base.contributors]
    IN  [metrics EXCEPT
            !["accuracy"] = Append(@, rec(sample.accuracy)),
            !["overlap"] = Append(@, rec(nanmean(sample.overlap))),
            !["distance"] = Append(@, rec(nanmean(sample.distance))),
            !["count"] = Append(@, rec(sample.count)),
            !["area"] = Append(@, rec(mean(sample.areas)))]

\* the steps of one turn of the loop that may raise, in order
LoopSteps == <<"load", "run", "metrics", "load_info", "post_image">>

\* lines 247-284: the loop over the data sets, up to the first step that
\* raises.  raised: an exception left the loop; metrics: the dict as it is
\* then; posted: the image keys written.
RECURSIVE loop(_, _, _, _, _, _)
loop(i, ii, samples, fault, metrics, posted) ==
    IF ii > Len(datasets)
    THEN [raised |-> FALSE, metrics |-> metrics, posted |-> posted]
    ELSE IF fault.at = "loop" /\ fault.ds = ii /\ fault.step # "post_image"
    THEN [raised |-> TRUE, metrics |-> metrics, posted |-> posted]
    ELSE IF fault.at = "loop" /\ fault.ds = ii
    THEN [raised |-> TRUE, metrics |-> append_dataset(metrics, datasets[ii], samples[ii]),
          posted |-> posted]
    ELSE loop(i, ii + 1, samples, fault,
              append_dataset(metrics, datasets[ii], samples[ii]),
              Append(posted, image_key(i, datasets[ii])))

\* the "overall" value with the NaN entries left out
overall_nanmean(values) == nanmean(values)

\* lines 286-288: the "overall" record of every metric
overall(values) == mean(values)

\* the "overall" record put before the data sets' records
append_overall_front(metrics) ==
    [k \in MetricNames |->
        <<[dataset |-> "overall", contributors |-> "",
           value |-> overall([j \in 1..Len(metrics[k]) |-> metrics[k][j].value])]>>
        \o metrics[k]]

append_overall(metrics) ==
    [k \in MetricNames |->
        Append(metrics[k],
               [dataset |-> "overall", contributors |-> "",
                value |-> overall([j \in 1..Len(metrics[k]) |-> metrics[k][j].value])])]

\* the try statement without "metrics = None" in its except clause
try_block_partial(coll, i, samples, fault, st, timestamp) ==
    CHOOSE try \in
        {[hasMetrics |-> TRUE,
          metrics |-> IF body.raised \/ st # "ok" THEN body.metrics
                      ELSE append_overall(body.metrics),
          msg |-> IF body.raised \/ st # "ok" THEN "Execution failed"
                  ELSE "Execution successful",
          posted |-> body.posted,
          updates |-> IF body.raised THEN 0 ELSE update_status_updates(st),
          coll |-> IF body.raised THEN coll
                   ELSE update_status_writes(coll, i, "executed", timestamp, st)] :
         body \in {loop(i, 1, samples, fault, EmptyMetrics, <<>>)}} : TRUE

\* the try statement marking "validated" for "executed"
try_block_marks_validated(coll, i, samples, fault, st, timestamp) ==
    CHOOSE try \in
        {[hasMetrics |-> ~(body.raised \/ st # "ok"),
          metrics |-> IF body.raised \/ st # "ok" THEN <<>>
                      ELSE append_overall(body.metrics),
          msg |-> IF body.raised \/ st # "ok" THEN "Execution failed"
                  ELSE "Execution successful",
          posted |-> body.posted,
          updates |-> IF body.raised THEN 0 ELSE update_status_updates(st),
          coll |-> IF body.raised THEN coll
                   ELSE update_status_writes(coll, i, "validated", timestamp, st)] :
         body \in {loop(i, 1, samples, fault, EmptyMetrics, <<>>)}} : TRUE

\* the try statement with update_status moved behind it: what it raises
\* is no longer caught, and the message is the loop's
try_block_status_outside(coll, i, samples, fault, st, timestamp) ==
    CHOOSE try \in
        {[hasMetrics |-> ~body.raised,
          metrics |-> IF body.raised THEN <<>> ELSE append_overall(body.metrics),
          msg |-> IF body.raised THEN "Execution failed" ELSE "Execution successful",
          posted |-> body.posted,
          updates |-> IF body.raised THEN 0 ELSE update_status_updates(st),
          coll |-> IF body.raised THEN coll
                   ELSE update_status_writes(coll, i, "executed", timestamp, st)] :
         body \in {loop(i, 1, samples, fault, EmptyMetrics, <<>>)}} : TRUE

\* lines 246-298: the try statement.  Gives the metrics execute returns,
\* the message, and the collection afterwards.
try_block(coll, i, samples, fault, st, timestamp) ==
    CHOOSE try \in
        {[hasMetrics |-> ~(body.raised \/ st # "ok"),
          metrics |-> IF body.raised \/ st # "ok" THEN <<>>
                      ELSE append_overall(body.metrics),
          msg |-> IF body.raised \/ st # "ok" THEN "Execution failed"
                  ELSE "Execution successful",
          posted |-> body.posted,
          updates |-> IF body.raised THEN 0 ELSE update_status_updates(st),
          coll |-> IF body.raised THEN coll
                   ELSE update_status_writes(coll, i, "executed", timestamp, st)] :
         body \in {loop(i, 1, samples, fault, EmptyMetrics, <<>>)}} : TRUE

\* lines 300-302: what follows the try statement
after_try(stopped) == stopped + 1

SparkHomes == {"None", "", "/root/spark"}

ExecuteInput(lay, spark_home, fault, st) ==
    [lay |-> lay, spark_home |-> spark_home, fault |-> fault, st |-> st]

\* where the engine fails: nowhere, importing thunder or starting the
\* context (no session yet), addPyFile (session started), or in the loop
Faults ==
    {NoFault} \cup [at : {"thunder", "start", "addPyFile"}, ds : {0}, step : {""}]
    \cup [at : {"loop"}, ds : 1..Len(datasets),
          step : {LoopSteps[k] : k \in 1..Len(LoopSteps)}]

\* What one call of execute meets: the clone's layout, SPARK_HOME, where the
\* engine fails and what the store answers.  An input the call never gets
\* to read (after an earlier failure) is left at its default.
ExecuteInputs ==
    {ExecuteInput(lay, "/root/spark", NoFault, "ok") : lay \in Layouts}
    \cup {ExecuteInput(lay, sh, NoFault, "ok") :
             lay \in {l \in Layouts : l.info = "valid"}, sh \in SparkHomes}
    \cup {ExecuteInput(lay, "/root/spark", fault, "ok") :
             lay \in {l \in Layouts : l.info = "valid"}, fault \in Faults}
    \cup {ExecuteInput(lay, "/root/spark", NoFault, st) :
             lay \in {l \in Layouts : l.info = "valid"}, st \in StoreOutcomes}

\* how far the call gets before the try statement: "info" (open or
\* json.loads raises), "import" (import_module raises), "spark" (SPARK_HOME
\* unset), "thunder", "start", "addPyFile", or "try" when it is reached
\* stage without the check of SPARK_HOME
stage_no_spark_check(lay, result, spark_home, fault) ==
    IF lay.info # "valid" THEN "info"
    ELSE IF result # "ok" THEN "import"
    ELSE IF fault.at \in {"thunder", "start", "addPyFile"} THEN fault.at
    ELSE "try"

stage(lay, result, spark_home, fault) ==
    IF lay.info # "valid" THEN "info"
    ELSE IF result # "ok" THEN "import"
    ELSE IF spark_home \in {"None", ""} THEN "spark"
    ELSE IF fault.at \in {"thunder", "start", "addPyFile"} THEN fault.at
    ELSE "try"

\* the session is started once ThunderContext.start has returned
session_started(stg) == IF stg \in {"addPyFile", "try"} THEN 1 ELSE 0

execute(i, in, samples) ==
    /\ in.lay.info = "valid" => Len(sys_path) < MaxClones
    /\ \E path \in {IF in.lay.info = "valid" THEN Append(sys_path, module(i, in.lay))
                    ELSE sys_path} :
       \E imp \in {import_module(sys_modules, path)} :
       \E stg \in {stage(in.lay, imp.result, in.spark_home, in.fault)} :
       LET infoRead == in.lay.info = "valid"
           call == [Call("execute", i) EXCEPT !.layout = in.lay, !.fault = in.fault,
                       !.spark_home = in.spark_home, !.stage = stg,
                       !.importResult = IF infoRead THEN imp.result ELSE "",
                       !.imported = IF infoRead THEN imp.from ELSE 0,
                       !.started = session_started(stg)]
       IN  \* inputs that the call never gets to read are left at their defaults
           /\ stg = "import" => in = ExecuteInput(in.lay, "/root/spark", NoFault, "ok")
           /\ sys_path' = path
           /\ sys_modules' = IF infoRead THEN imp.modules ELSE sys_modules
           /\ IF stg # "try"
              THEN /\ lastCall' = [call EXCEPT !.outcome = "raised"]
                   /\ UNCHANGED collection
              ELSE \E try \in {try_block(collection, i, samples, in.fault, in.st,
                                         mktime(now))} :
                   /\ collection' = try.coll
                   /\ lastCall' =
                        [call EXCEPT !.store = in.st, !.hasMetrics = try.hasMetrics,
                            !.metrics = try.metrics, !.posted = try.posted,
                            !.hasInfo = TRUE, !.updates = try.updates,
                            !.msgs = send_message(<<>>, try.msg),
                            !.stopped = after_try(0)]
    /\ UNCHANGED <<now, tz>>

(***************************************************************************)
(* The clock.                                                              *)
(***************************************************************************)
Tick ==
    /\ now < StartTime + MaxTicks
    /\ now' = now + 1
    /\ lastCall' = Call("tick", 0)
    /\ UNCHANGED <<collection, tz, sys_path, sys_modules>>

Init ==
    /\ collection = <<>>
    /\ now = StartTime
    /\ tz \in TzOffsets
    /\ sys_path = <<>>
    /\ sys_modules = 0
    /\ lastCall = NoCall

(***************************************************************************)
(* Inputs.                                                                 *)
(***************************************************************************)
\* a submission with everything in place
GoodLayout == [dir |-> TRUE, info |-> "valid", run_py |-> "ok", init_py |-> TRUE]

\* what the engine computes for one data set
Sample(acc, ov, di, cnt, ar) ==
    [accuracy |-> acc, overlap |-> ov, distance |-> di, count |-> cnt, areas |-> ar]

Tenths(k) == [n |-> k, d |-> 10]

\* a source the submitted code found: its overlap with and distance to the
\* true source it matches (NaN when it matches none), and its area
Unmatched == [overlap |-> NaN, distance |-> NaN, area |-> Num(20)]
SourceA == [overlap |-> Tenths(5), distance |-> Num(2), area |-> Num(10)]
SourceB == [overlap |-> Tenths(9), distance |-> Num(4), area |-> Num(30)]

\* the engine's numbers for a data set in which srcs were found
EngineSample(acc, srcs) ==
    Sample(acc,
           [k \in 1..Len(srcs) |-> srcs[k].overlap],
           [k \in 1..Len(srcs) |-> srcs[k].distance],
           Num(Len(srcs)),
           [k \in 1..Len(srcs) |-> srcs[k].area])

\* one run of the benchmark: two sources found in each data set
PlainSamples ==
    <<EngineSample(Tenths(8), <<SourceA, Unmatched>>),
      EngineSample(Tenths(6), <<SourceB, SourceA>>)>>

\* most sources found in one data set
MaxSources == 2

\* the sources found in a data set: at least one
SourceLists == UNION {[1..k -> {Unmatched, SourceA, SourceB}] : k \in 1..MaxSources}

\* the accuracy truth.similarity gives: a float, NaN among them
Accuracies == {Tenths(6), Tenths(8), NaN}

SampleSet == {EngineSample(acc, srcs) : acc \in Accuracies, srcs \in SourceLists}

IdsOne == {1}

InitUTC == Init /\ tz = 0

\* one pull request, the clock, the store's operations and the validation
\* of a pass that fails
NextClock ==
    \/ Tick
    \/ \E i \in IdsOne : isentry(i)
    \/ \E i \in IdsOne, u \in Times : u <= now /\ isrecent(i, u)
    \/ \E i \in IdsOne, f \in Flags : clear_status(i, f)
    \/ \E i \in IdsOne, f \in Flags : check_status(i, f)
    \/ \E i \in IdsOne, f \in Flags, st \in StoreOutcomes : update_status(i, f, st)
    \/ \E i \in IdsOne : update_last_checked(i)
    \/ \E i \in IdsOne, m \in BOOLEAN : validate(i, m, NoLayout, "ok")

SpecClock == Init /\ [][NextClock]_vars

\* one pull request, validated again and again as its branch changes
NextValidate ==
    \/ \E i \in IdsOne : isentry(i)
    \/ \E i \in IdsOne : clear_status(i, "validated")
    \/ \E i \in IdsOne, m \in BOOLEAN, lay \in Layouts, st \in StoreOutcomes :
          validate(i, m, lay, st)

SpecValidate == InitUTC /\ [][NextValidate]_vars

\* one pull request, executed again and again
NextExecute ==
    \/ \E i \in IdsOne : isentry(i)
    \/ \E i \in IdsOne, in \in ExecuteInputs : execute(i, in, PlainSamples)

SpecExecute == InitUTC /\ [][NextExecute]_vars

\* the first execution of a process, on every outcome of the engine
NextMetrics ==
    \/ \E i \in IdsOne : isentry(i)
    \/ \E i \in IdsOne, a \in SampleSet, b \in SampleSet :
          /\ sys_path = <<>>
          /\ execute(i, ExecuteInput(GoodLayout, "/root/spark", NoFault, "ok"), <<a, b>>)

SpecMetrics == InitUTC /\ [][NextMetrics]_vars

\* a failure in the second data set
LoopFault == [at |-> "loop", ds |-> 2, step |-> "run"]

\* one pull request validated and executed by a store that may fail
NextNotify ==
    \/ \E i \in IdsOne : isentry(i)
    \/ \E i \in IdsOne, f \in Flags : clear_status(i, f)
    \/ \E i \in IdsOne, m \in BOOLEAN, lay \in {NoLayout, GoodLayout}, st \in StoreOutcomes :
          validate(i, m, lay, st)
    \/ \E i \in IdsOne, st \in StoreOutcomes :
          execute(i, ExecuteInput(GoodLayout, "/root/spark", NoFault, st), PlainSamples)
    \/ \E i \in IdsOne :
          execute(i, ExecuteInput(GoodLayout, "/root/spark", LoopFault, "ok"), PlainSamples)

SpecNotify == InitUTC /\ [][NextNotify]_vars

\* two pull requests and every operation that writes to the store
NextStore ==
    \/ \E i \in Ids : isentry(i)
    \/ \E i \in Ids, f \in Flags : clear_status(i, f)
    \/ \E i \in Ids, f \in Flags : update_status(i, f, "ok")
    \/ \E i \in Ids : update_last_checked(i)
    \/ \E i \in Ids, lay \in {NoLayout, GoodLayout} : validate(i, TRUE, lay, "ok")
    \/ \E i \in Ids, ds \in {0, 2} :
          execute(i, ExecuteInput(GoodLayout, "/root/spark",
                                  IF ds = 0 THEN NoFault
                                  ELSE [at |-> "loop", ds |-> ds, step |-> "run"], "ok"),
                  PlainSamples)

SpecStore == InitUTC /\ [][NextStore]_vars

(***************************************************************************)
(* Properties.                                                             *)
(***************************************************************************)
\* the record of pull request i (when there is one)
Rec(coll, i) == find_one(coll, i)

\* string s holds string t
Contains(s, t) ==
    \E k \in 1..(Len(s) - Len(t) + 1) : SubSeq(s, k, k + Len(t) - 1) = t

\* the step is a call of execute in which a step of the loop raised
LoopFailed(call) ==
    call.op = "execute" /\ call.stage = "try" /\ call.fault.at = "loop"

\* C1: when a step of the loop over the data sets raises, for the first or
\* the second data set, execute returns with metrics None (no partly filled
\* dict), sends "Execution failed" as its one message, and the record's
\* executed and executed_at are what they were before the call.
C1_LoopFailureDiscardsMetrics ==
    [][LoopFailed(lastCall') =>
          /\ lastCall'.outcome = "returned"
          /\ ~lastCall'.hasMetrics
          /\ lastCall'.metrics = <<>>
          /\ lastCall'.msgs = <<"Execution failed">>
          /\ Len(collection') = Len(collection)
          /\ \A k \in 1..Len(collection) :
                /\ collection'[k].executed = collection[k].executed
                /\ collection'[k].executed_at = collection[k].executed_at]_vars

\* C1's case: the second data set fails after the first one's image was
\* posted, on a record that an earlier run had marked executed
C1_Witness ==
    /\ LoopFailed(lastCall)
    /\ lastCall.fault.ds = 2
    /\ lastCall.posted = <<"neurofinder/images/1/00.00/sources.png">>
    /\ Found(collection, lastCall.id)
    /\ Rec(collection, lastCall.id).executed

\* C2: whenever ThunderContext.start has returned in a call of execute,
\* the session's stop() is called exactly once before the call ends.
C2_SessionStoppedOnce ==
    (lastCall.op = "execute" /\ lastCall.started = 1) => lastCall.stopped = 1

\* every check of validate passed in the call
AllChecksPass(call) ==
    /\ call.mergeable
    /\ call.layout.dir
    /\ call.layout.info = "valid"
    /\ call.layout.run_py # "missing"
    /\ call.layout.init_py
    /\ call.importResult = "ok"

AllComplaints(i) ==
    {"Submission cannot be merged\n",
     "Missing directory submissions/" \o login(i) \o "\n",
     "Missing info.json\n", "Cannot find info.json file\n",
     "Error parsing info.json file\n", "Missing run.py\n",
     "Missing __init__.py\n", "Cannot import run from run.py"}

\* the lines of the conditions the call found violated
Complaints(call) ==
    (IF ~call.mergeable THEN {"Submission cannot be merged\n"} ELSE {})
    \cup (IF ~call.layout.dir
          THEN {"Missing directory submissions/" \o login(call.id) \o "\n"} ELSE {})
    \cup (IF call.layout.info = "missing" THEN {"Missing info.json\n"} ELSE {})
    \cup (IF call.layout.info = "unreadable" THEN {"Cannot find info.json file\n"} ELSE {})
    \cup (IF call.layout.info = "invalid" THEN {"Error parsing info.json file\n"} ELSE {})
    \cup (IF call.layout.run_py = "missing" THEN {"Missing run.py\n"} ELSE {})
    \cup (IF ~call.layout.init_py THEN {"Missing __init__.py\n"} ELSE {})
    \cup (IF call.importResult = "ImportError"
          THEN {"Cannot import run from run.py"} ELSE {})

ValidationFailed(call) ==
    /\ call.op = "validate"
    /\ call.outcome = "returned"
    /\ Len(call.msgs) = 1
    /\ Contains(call.msgs[1], "Validation failed:\n")

\* C5: a call of validate that fails writes nothing to the store: every
\* field of every record is what it was, validated included.
C5_FailedValidationWritesNothing ==
    [][ValidationFailed(lastCall') => collection' = collection]_vars

\* C5's case: a failed validation of a pull request whose record says
\* validated, from an earlier revision
C5_Witness ==
    /\ ValidationFailed(lastCall)
    /\ Found(collection, lastCall.id)
    /\ Rec(collection, lastCall.id).validated
    /\ Rec(collection, lastCall.id).validated_at # 0

\* C6: isrecent returns true exactly when updated_at, converted by mktime,
\* is greater than the stored last_checked, and it writes nothing.
C6_IsRecentStrictlyLater ==
    [][lastCall'.op = "isrecent" =>
          /\ collection' = collection
          /\ Found(collection, lastCall'.id) =>
                /\ lastCall'.outcome = "returned"
                /\ lastCall'.ret <=>
                      (lastCall'.updated_at - tz
                          > Rec(collection, lastCall'.id).last_checked)]_vars

\* C6's case: updated_at equal to the time of the last check gives false
C6_Witness ==
    /\ lastCall.op = "isrecent"
    /\ lastCall.outcome = "returned"
    /\ ~lastCall.ret
    /\ Found(collection, lastCall.id)
    /\ Rec(collection, lastCall.id).last_checked = lastCall.updated_at - tz

\* C7: isentry on an id without a record adds the record with validated and
\* executed false and the three times 0, and a check_status('validated')
\* right after it gives false; isentry on an id with a record changes no
\* field of any record.
C7_IsEntryIdempotent ==
    [][/\ (lastCall'.op = "isentry" /\ ~Found(collection, lastCall'.id)) =>
             /\ lastCall'.added
             /\ collection' = Append(collection,
                   [id |-> lastCall'.id, login |-> login(lastCall'.id),
                    validated |-> FALSE, executed |-> FALSE, last_checked |-> 0,
                    validated_at |-> 0, executed_at |-> 0])
       /\ (lastCall'.op = "isentry" /\ Found(collection, lastCall'.id)) =>
             collection' = collection
       /\ (lastCall.op = "isentry" /\ lastCall.added
           /\ lastCall'.op = "check_status" /\ lastCall'.id = lastCall.id
           /\ lastCall'.flag = "validated") =>
             (lastCall'.outcome = "returned" /\ ~lastCall'.ret)]_vars

\* C7's case: isentry called on a record that is no longer the default one
C7_Witness ==
    /\ lastCall.op = "isentry"
    /\ ~lastCall.added
    /\ Rec(collection, lastCall.id).validated
    /\ Rec(collection, lastCall.id).last_checked # 0

\* C8: the store never holds two records of one id; a record, once there,
\* stays; every id isentry was called on has its record; and a record
\* appears only in a call of isentry on its id.
C8_OneRecordPerId ==
    [][/\ \A i \in Ids : Cardinality(Matches(collection', i)) <= 1
       /\ \A i \in Ids : Found(collection, i) => Found(collection', i)
       /\ \A i \in Ids : (~Found(collection, i) /\ Found(collection', i)) =>
             (lastCall'.op = "isentry" /\ lastCall'.id = i)
       /\ lastCall'.op = "isentry" =>
             Cardinality(Matches(collection', lastCall'.id)) = 1]_vars

\* C8's case: update_status on an id without a record, beside an id with one
C8_Witness ==
    /\ lastCall.op = "update_status"
    /\ ~Found(collection, lastCall.id)
    /\ Len(collection) = 1

\* every flag that is set has its time
Stamped(coll) ==
    \A k \in 1..Len(coll) :
        /\ coll[k].validated => coll[k].validated_at # 0
        /\ coll[k].executed => coll[k].executed_at # 0

\* C9, as claimed: in every state between calls, validated implies
\* validated_at # 0 and executed implies executed_at # 0.
C9_FlagImpliesTimestamp == Stamped(collection)

\* C9, amended: a call of update_status that completes on an existing
\* record leaves the flag true and its time the call's epoch time, which is
\* not 0, whatever the flag was before; and a step takes the store from
\* "every set flag has its time" to a set flag with time 0 only when it is
\* an update_status cut short between its two writes.
C9_CompletedUpdateStamps ==
    [][/\ (lastCall'.op = "update_status" /\ lastCall'.outcome = "returned"
           /\ Found(collection, lastCall'.id)) =>
             /\ Rec(collection', lastCall'.id)[lastCall'.flag] = TRUE
             /\ Rec(collection', lastCall'.id)[At(lastCall'.flag)] = now - tz
             /\ Rec(collection', lastCall'.id)[At(lastCall'.flag)] # 0
       /\ (Stamped(collection) /\ ~Stamped(collection')) =>
             lastCall'.store = "raise2"]_vars

\* C9's case: a completed update_status at a later time than the time the
\* flag was first set at (the clock has moved on)
C9_Witness ==
    /\ lastCall.op = "update_status"
    /\ lastCall.outcome = "returned"
    /\ lastCall.flag = "executed"
    /\ Found(collection, lastCall.id)
    /\ now > StartTime
    /\ Rec(collection, lastCall.id).executed
    /\ Rec(collection, lastCall.id).executed_at = now - tz

\* the per-data-set values of a metric, and its "overall" value
DatasetValues(recs) == [j \in 1..(Len(recs) - 1) |-> recs[j].value]
OverallValue(recs) == recs[Len(recs)].value

\* the values that are numbers
NotNaN(vals) == SelectSeq(vals, LAMBDA x : x.d # 0)

\* the sum of fractions, none of them NaN
SumOf(vals) ==
    LET f[k \in 0..Len(vals)] ==
            IF k = 0 THEN [n |-> 0, d |-> 1]
            ELSE [n |-> f[k - 1].n * vals[k].d + vals[k].n * f[k - 1].d,
                  d |-> f[k - 1].d * vals[k].d]
    IN  f[Len(vals)]

\* the greatest common divisor of two naturals
RECURSIVE Gcd(_, _)
Gcd(a, b) == IF b = 0 THEN a ELSE Gcd(b, a % b)

\* a fraction that is a number, in lowest terms
Lowest(x) == [n |-> x.n \div Gcd(x.n, x.d), d |-> x.d \div Gcd(x.n, x.d)]

\* x is the arithmetic mean of vals, none of them NaN
IsMeanOf(x, vals) ==
    /\ vals # <<>>
    /\ x.d # 0
    /\ Lowest(x) = Lowest([n |-> SumOf(vals).n, d |-> SumOf(vals).d * Len(vals)])

\* C10: in the metrics of a successful execute the "overall"
\* value of overlap and of distance is the mean of the per-data-set values
\* that are not NaN (NaN only when all of them are).
C10_OverallIgnoresNaN ==
    (lastCall.op = "execute" /\ lastCall.hasMetrics) =>
        \A k \in {"overlap", "distance"} :
            LET vals == DatasetValues(lastCall.metrics[k])
                got == OverallValue(lastCall.metrics[k])
            IN  IF NotNaN(vals) = <<>> THEN got.d = 0 ELSE IsMeanOf(got, NotNaN(vals))

\* C11: in the metrics of a successful execute the "overall" value of
\* accuracy, count and area is the plain arithmetic mean of the per-data-set
\* values: NaN as soon as one of them is NaN, their sum over their number
\* otherwise.
C11_OverallIsPlainMean ==
    (lastCall.op = "execute" /\ lastCall.hasMetrics) =>
        \A k \in {"accuracy", "count", "area"} :
            LET vals == DatasetValues(lastCall.metrics[k])
                got == OverallValue(lastCall.metrics[k])
            IN  IF NotNaN(vals) # vals THEN got.d = 0 ELSE IsMeanOf(got, vals)

\* C11's case: accuracy 0.8 and 0.6 give the overall accuracy 0.7
C11_Witness ==
    /\ lastCall.op = "execute"
    /\ lastCall.hasMetrics
    /\ DatasetValues(lastCall.metrics["accuracy"]) = <<Tenths(8), Tenths(6)>>
    /\ OverallValue(lastCall.metrics["accuracy"]).d # 0
    /\ Lowest(OverallValue(lastCall.metrics["accuracy"])) = [n |-> 7, d |-> 10]

\* C12: whenever execute returns metrics that are not None, each of the five
\* metric names maps to one record per data set, in the order of the data
\* sets ("00.00", then "00.01"), followed by one record with dataset
\* "overall" and contributors "", and nothing else.
C12_MetricsShape ==
    (lastCall.op = "execute" /\ lastCall.outcome = "returned" /\ lastCall.hasMetrics) =>
        /\ DOMAIN lastCall.metrics = {"accuracy", "overlap", "distance", "count", "area"}
        /\ \A k \in DOMAIN lastCall.metrics :
              /\ Len(lastCall.metrics[k]) = 3
              /\ lastCall.metrics[k][1].dataset = "00.00"
              /\ lastCall.metrics[k][2].dataset = "00.01"
              /\ lastCall.metrics[k][3].dataset = "overall"
              /\ lastCall.metrics[k][3].contributors = ""
              /\ DOMAIN lastCall.metrics[k][3] = {"dataset", "contributors", "value"}

\* C12's case: a successful execute, after an earlier one of the same
\* process failed in its second data set
C12_Witness ==
    /\ lastCall.op = "execute"
    /\ lastCall.hasMetrics
    /\ Len(sys_path) > 1
    /\ Len(lastCall.metrics["area"]) = 3
    /\ lastCall.metrics["area"][3].dataset = "overall"

\* C13: check_status on an id that has no record raises (find_one gives
\* None and None[status] is a TypeError) instead of returning a value, and
\* the store is as it was: no record is made.  With a record it returns the
\* stored flag.
C13_CheckStatusWithoutRecordRaises ==
    [][lastCall'.op = "check_status" =>
          /\ collection' = collection
          /\ IF Found(collection, lastCall'.id)
             THEN /\ lastCall'.outcome = "returned"
                  /\ lastCall'.ret = Rec(collection, lastCall'.id)[lastCall'.flag]
             ELSE /\ lastCall'.outcome = "raised"
                  /\ ~Found(collection', lastCall'.id)]_vars

\* C13's case: check_status raised and there is still no record
C13_Witness ==
    /\ lastCall.op = "check_status"
    /\ lastCall.outcome = "raised"
    /\ lastCall.flag = "executed"
    /\ ~Found(collection, lastCall.id)

\* the call of execute met an info.json that is absent, unreadable or not
\* JSON, or (with info.json and the run module in order) a SPARK_HOME that is
\* unset or empty
FailsEarly(call) ==
    /\ call.op = "execute"
    /\ \/ call.layout.info # "valid"
       \/ call.importResult = "ok" /\ call.spark_home \in {"None", ""}

\* C14: an error of execute before the data sets are processed (info.json
\* absent or unparsable, SPARK_HOME unset or empty) leaves execute uncaught:
\* no message is sent, no field of any record is written, and no session of
\* the engine has been started (none is stopped either).
C14_EarlyErrorsEscape ==
    [][FailsEarly(lastCall') =>
          /\ lastCall'.outcome = "raised"
          /\ lastCall'.msgs = <<>>
          /\ collection' = collection
          /\ lastCall'.started = 0
          /\ lastCall'.stopped = 0
          /\ ~lastCall'.hasMetrics]_vars

\* C14's case: SPARK_HOME is empty, for a pull request that has a record
C14_Witness ==
    /\ FailsEarly(lastCall)
    /\ lastCall.layout.info = "valid"
    /\ lastCall.spark_home = ""
    /\ lastCall.outcome = "raised"
    /\ Found(collection, lastCall.id)

\* C15: clear_status(flag) sets the named flag of the record to false and
\* changes nothing else: the other flag, validated_at, executed_at and
\* last_checked (and id and login) are what they were.
C15_ClearStatusOnlyTheFlag ==
    [][(lastCall'.op = "clear_status" /\ Found(collection, lastCall'.id)) =>
          /\ Len(collection') = Len(collection)
          /\ Rec(collection', lastCall'.id)[lastCall'.flag] = FALSE
          /\ \A k \in 1..Len(collection) :
                \A f \in DOMAIN collection[k] :
                   (f # lastCall'.flag \/ collection[k].id # lastCall'.id) =>
                      collection'[k][f] = collection[k][f]]_vars

\* C15's case: validated was cleared on a record whose two flags were set;
\* executed and the two times are still there
C15_Witness ==
    /\ lastCall.op = "clear_status"
    /\ lastCall.flag = "validated"
    /\ Found(collection, lastCall.id)
    /\ ~Rec(collection, lastCall.id).validated
    /\ Rec(collection, lastCall.id).executed
    /\ Rec(collection, lastCall.id).validated_at # 0
    /\ Rec(collection, lastCall.id).executed_at # 0

\* C16: whatever error the import of run raises in validate (an ImportError
\* or any other exception raised while run.py is loaded), validate returns
\* normally, with one failure message that holds "Cannot import run from
\* run.py".
C16_ImportErrorsRecovered ==
    (lastCall.op = "validate" /\ lastCall.importResult \in {"ImportError", "Error"}) =>
        /\ lastCall.outcome = "returned"
        /\ Len(lastCall.msgs) = 1
        /\ Contains(lastCall.msgs[1], "Validation failed:\n")
        /\ Contains(lastCall.msgs[1], "Cannot import run from run.py")

\* the call of execute that just ended marked its record executed
MarkedExecuted(call, coll) ==
    /\ call.op = "execute"
    /\ call.hasMetrics
    /\ Found(coll, call.id)
    /\ Rec(coll, call.id).executed

\* C17, as claimed: after any sequence of calls, a record that execute has
\* just marked executed is validated at that moment.
C17_ExecutedImpliesValidated ==
    MarkedExecuted(lastCall, collection) => Rec(collection, lastCall.id).validated

\* C17, amended: execute neither reads nor writes validated: every record's
\* validated and validated_at are after the call what they were before it,
\* so the record that execute marks executed is validated at that moment
\* exactly when it was validated when execute was called.
C17_ExecuteKeepsValidated ==
    [][lastCall'.op = "execute" =>
          /\ Len(collection') = Len(collection)
          /\ \A k \in 1..Len(collection) :
                /\ collection'[k].validated = collection[k].validated
                /\ collection'[k].validated_at = collection[k].validated_at
          /\ MarkedExecuted(lastCall', collection') =>
                (Rec(collection', lastCall'.id).validated
                    <=> Rec(collection, lastCall'.id).validated)]_vars

\* C17's case: execute marked a record that validate had marked before
C17_Witness ==
    /\ MarkedExecuted(lastCall, collection)
    /\ Rec(collection, lastCall.id).validated
    /\ Rec(collection, lastCall.id).validated_at # 0
    /\ Rec(collection, lastCall.id).executed_at # 0

\* C18: once update_last_checked was called for a pull request at time T,
\* isrecent on the store it leaves gives false for every updated_at that is
\* not later than T and true for every updated_at later than T; and the
\* stored last_checked stays what that call wrote until the next call of
\* update_last_checked, whatever is called in between.
C18_CheckedUntilNextUpdate ==
    [][/\ (lastCall'.op = "update_last_checked" /\ Found(collection, lastCall'.id)) =>
             \A u \in Times :
                isrecent_result(collection', lastCall'.id, u) <=> u > now
       /\ lastCall'.op # "update_last_checked" =>
             \A k \in 1..Len(collection) :
                collection'[k].last_checked = collection[k].last_checked]_vars

\* C18's case: after a check at an earlier time, in a zone that is not
\* UTC, isrecent finds an update made since then
C18_Witness ==
    /\ lastCall.op = "isrecent"
    /\ lastCall.outcome = "returned"
    /\ lastCall.ret
    /\ tz # 0
    /\ Found(collection, lastCall.id)
    /\ Rec(collection, lastCall.id).last_checked # 0
    /\ lastCall.updated_at = now
    /\ Rec(collection, lastCall.id).last_checked = mktime(now - 1)

\* the step is a call of validate that returned, or a call of execute that
\* got to the data sets, for a pull request that has a record
Notifies(call, coll) ==
    /\ Found(coll, call.id)
    /\ \/ call.op = "validate" /\ call.outcome = "returned"
       \/ call.op = "execute" /\ call.stage = "try"

\* the one message of the call is the success message
SentSuccess(call) ==
    /\ Len(call.msgs) = 1
    /\ call.msgs[1] \in {"Validation successful", "Execution successful"}

\* C19, as claimed: such a call sends exactly one message, and it is the
\* success message exactly when the call wrote its flag (validated or
\* executed) as true.
C19_MessageIffFlagWritten ==
    [][Notifies(lastCall', collection) =>
          /\ Len(lastCall'.msgs) = 1
          /\ SentSuccess(lastCall') <=> lastCall'.updates >= 1]_vars

\* C19, amended: such a call sends exactly one message; it is the success
\* message exactly when update_status went through in the call (the flag
\* and its time written, both before the message); a call of validate in
\* which update_status raises sends nothing.
C19_MessageIffStatusUpdated ==
    [][/\ Notifies(lastCall', collection) =>
             /\ Len(lastCall'.msgs) = 1
             /\ SentSuccess(lastCall') <=> lastCall'.updates = 2
             /\ SentSuccess(lastCall') =>
                   LET flag == IF lastCall'.op = "validate" THEN "validated" ELSE "executed"
                   IN  /\ Rec(collection', lastCall'.id)[flag] = TRUE
                       /\ Rec(collection', lastCall'.id)[At(flag)] = now - tz
       /\ (lastCall'.op = "validate" /\ lastCall'.outcome = "raised") =>
             lastCall'.msgs = <<>>]_vars

\* C19's case: execute sent "Execution failed" because update_status had
\* raised, for a pull request validated before
C19_Witness ==
    /\ lastCall.op = "execute"
    /\ lastCall.stage = "try"
    /\ lastCall.fault = NoFault
    /\ lastCall.msgs = <<"Execution failed">>
    /\ Found(collection, lastCall.id)
    /\ Rec(collection, lastCall.id).validated

\* C20: the run module that a call of validate import-checks, or that a
\* call of execute imports to run, is the one of the clone of the call's own
\* pull request, whatever was validated or executed before in the process.
C20_OwnRunModule ==
    (lastCall.op \in {"validate", "execute"} /\ lastCall.importResult = "ok") =>
        /\ lastCall.imported \in 1..Len(sys_path)
        /\ sys_path[lastCall.imported].owner = lastCall.id

====
